---- MODULE Spec2Model ----
(***************************************************************************)
(* Model of elevator-rs (src/src/main.rs): a Controller that assigns floor *)
(* requests to the elevator with the lowest score, and one elevator_loop   *)
(* thread per elevator that drains its command channel and moves one floor *)
(* per tick.  Every Mutex critical section is two steps (acquire, then the *)
(* body together with the release), so that lock ownership is observable.  *)
(***************************************************************************)
EXTENDS Integers, Sequences, FiniteSets, TLC

\* ---------------------------------------------------------------- bounds
MaxFleet == 2        \* largest Vec<ElevatorHandle> given to Controller::new
MaxFloor == 2        \* highest floor a caller asks for
Basements == 1       \* floors below 0 a caller asks for
MaxRequests == 2     \* request_elevator calls per run
MaxStatus == 1       \* Command::Status values sent per run
ProbeSpan == 3       \* calculate_score is probed on floors -ProbeSpan..ProbeSpan

\* ------------------------------------------------------ program constants
I32Max == 2147483647
PassedPenalty == 1000
OppositePenalty == 500

Floors == (0 - Basements)..MaxFloor
Direction == {"Up", "Down", "Idle"}
None == 0            \* Option::None for best_elevator (handles are 1..fleet)
NoFloor == 0 - Basements - 1

AddStop(f) == [kind |-> "AddStop", floor |-> f]
Status == [kind |-> "Status", floor |-> NoFloor]
NoCmd == [kind |-> "None", floor |-> NoFloor]

VARIABLES
    fleet,      \* number of ElevatorHandles the Controller holds
    state,      \* state[e]: the Mutex-protected ElevatorState of elevator e
    lock,       \* lock[e]: who holds state[e]'s Mutex
    chan,       \* chan[e]: commands sent on e's channel and not yet received
    senders,    \* TRUE while the Controller (and so every Sender) is alive
    pc,         \* pc[e]: where elevator_loop e stands
    cmd,        \* cmd[e]: the command elevator_loop e is handling
    tick,       \* tick[e]: the tuple (next_floor, should_stop) of the tick
    call,       \* the locals of the request_elevator call in progress
    calls,      \* request_elevator calls made so far
    hist,       \* hist[e]: history of elevator_loop e (observes, never decides)
    audit,      \* history of the request_elevator call in progress or last ended
    probe,      \* inputs and outputs of one probe of calculate_score
    statuses    \* Command::Status values sent so far

vars == <<fleet, state, lock, chan, senders, pc, cmd, tick, call, calls,
          hist, audit, probe, statuses>>

Elevators == 1..fleet

Abs(x) == IF x < 0 THEN 0 - x ELSE x

\* ElevatorState::new
NewState == [current_floor |-> 0, direction |-> "Idle", stops |-> {}]

\* Mutant of calculate_score: the Down arm copied from the Up arm with the
\* comparison left as it was
calculate_score_copied(self, floor, direction) ==
    LET distance == Abs(self.current_floor - floor) IN
    CASE self.direction = "Idle" -> distance
      [] self.direction = "Up" ->
            IF direction = "Up" /\ floor >= self.current_floor THEN distance
            ELSE IF direction = "Up" THEN distance + PassedPenalty
            ELSE distance + OppositePenalty
      [] self.direction = "Down" ->
            IF direction = "Down" /\ floor >= self.current_floor THEN distance
            ELSE IF direction = "Down" THEN distance + PassedPenalty
            ELSE distance + OppositePenalty

\* Mutant of calculate_score: the distance without .abs()
calculate_score_signed(self, floor, direction) ==
    LET distance == self.current_floor - floor IN
    CASE self.direction = "Idle" -> distance
      [] self.direction = "Up" ->
            IF direction = "Up" /\ floor >= self.current_floor THEN distance
            ELSE IF direction = "Up" THEN distance + PassedPenalty
            ELSE distance + OppositePenalty
      [] self.direction = "Down" ->
            IF direction = "Down" /\ floor <= self.current_floor THEN distance
            ELSE IF direction = "Down" THEN distance + PassedPenalty
            ELSE distance + OppositePenalty

\* ElevatorState::calculate_score
calculate_score(self, floor, direction) ==
    LET distance == Abs(self.current_floor - floor) IN
    CASE self.direction = "Idle" -> distance
      [] self.direction = "Up" ->
            IF direction = "Up" /\ floor >= self.current_floor THEN distance
            ELSE IF direction = "Up" THEN distance + PassedPenalty
            ELSE distance + OppositePenalty
      [] self.direction = "Down" ->
            IF direction = "Down" /\ floor <= self.current_floor THEN distance
            ELSE IF direction = "Down" THEN distance + PassedPenalty
            ELSE distance + OppositePenalty

\* BTreeSet::range(lo..).next() and range(..hi).next_back(); NoFloor is Option::None
SetMin(S) == CHOOSE x \in S : \A y \in S : x <= y
SetMax(S) == CHOOSE x \in S : \A y \in S : x >= y
FirstFrom(stops, lo) ==
    LET S == {s \in stops : s >= lo} IN IF S = {} THEN NoFloor ELSE SetMin(S)
LastUpTo(stops, hi) ==
    LET S == {s \in stops : s <= hi} IN IF S = {} THEN NoFloor ELSE SetMax(S)

\* Mutant of UpBranch: the reversal spends its tick turning round
UpBranchTurn(cf, stops) ==
    IF FirstFrom(stops, cf + 1) # NoFloor
    THEN [branch |-> "UpAhead", direction |-> "Up", next_floor |-> cf + 1]
    ELSE [branch |-> "UpStay", direction |-> "Down", next_floor |-> cf]

\* Mutant of UpBranch: an elevator going up turns round for a stop below it
UpBranchServeBelow(cf, stops) ==
    IF LastUpTo(stops, cf - 1) # NoFloor
    THEN [branch |-> "UpReverse", direction |-> "Down", next_floor |-> cf - 1]
    ELSE IF FirstFrom(stops, cf + 1) # NoFloor
    THEN [branch |-> "UpAhead", direction |-> "Up", next_floor |-> cf + 1]
    ELSE [branch |-> "UpReverse", direction |-> "Down", next_floor |-> cf - 1]

\* The match on direction of the decision block (lines 130-176) for non-empty
\* stops: the branch taken, the new direction and next_floor.
UpBranch(cf, stops) ==
    IF FirstFrom(stops, cf + 1) # NoFloor
    THEN [branch |-> "UpAhead", direction |-> "Up", next_floor |-> cf + 1]
    ELSE IF LastUpTo(stops, cf) # NoFloor
    THEN [branch |-> "UpReverse", direction |-> "Down", next_floor |-> cf - 1]
    ELSE [branch |-> "UpStay", direction |-> "Down", next_floor |-> cf]

\* Mutant of DownBranch: range(..=current_floor), a stop at the current floor
\* counts as a stop below
DownBranchInclusive(cf, stops) ==
    IF LastUpTo(stops, cf) # NoFloor
    THEN [branch |-> "DownAhead", direction |-> "Down", next_floor |-> cf - 1]
    ELSE IF FirstFrom(stops, cf) # NoFloor
    THEN [branch |-> "DownReverse", direction |-> "Up", next_floor |-> cf + 1]
    ELSE [branch |-> "DownStay", direction |-> "Up", next_floor |-> cf]

DownBranch(cf, stops) ==
    IF LastUpTo(stops, cf - 1) # NoFloor
    THEN [branch |-> "DownAhead", direction |-> "Down", next_floor |-> cf - 1]
    ELSE IF FirstFrom(stops, cf) # NoFloor
    THEN [branch |-> "DownReverse", direction |-> "Up", next_floor |-> cf + 1]
    ELSE [branch |-> "DownStay", direction |-> "Up", next_floor |-> cf]

\* Mutant of IdleBranch: < for <= in the comparison of the two distances
IdleBranchStrict(cf, stops) ==
    LET up_stop == FirstFrom(stops, cf + 1)
        down_stop == LastUpTo(stops, cf - 1)
    IN  CASE up_stop # NoFloor /\ down_stop # NoFloor ->
                IF up_stop - cf < cf - down_stop
                THEN [branch |-> "IdleBothUp", direction |-> "Up", next_floor |-> cf + 1]
                ELSE [branch |-> "IdleBothDown", direction |-> "Down", next_floor |-> cf - 1]
          [] up_stop # NoFloor /\ down_stop = NoFloor ->
                [branch |-> "IdleUp", direction |-> "Up", next_floor |-> cf + 1]
          [] up_stop = NoFloor /\ down_stop # NoFloor ->
                [branch |-> "IdleDown", direction |-> "Down", next_floor |-> cf - 1]
          [] OTHER ->
                [branch |-> "Unreachable", direction |-> "Idle", next_floor |-> cf]

IdleBranch(cf, stops) ==
    LET up_stop == FirstFrom(stops, cf + 1)
        down_stop == LastUpTo(stops, cf - 1)
    IN  CASE up_stop # NoFloor /\ down_stop # NoFloor ->
                IF up_stop - cf <= cf - down_stop
                THEN [branch |-> "IdleBothUp", direction |-> "Up", next_floor |-> cf + 1]
                ELSE [branch |-> "IdleBothDown", direction |-> "Down", next_floor |-> cf - 1]
          [] up_stop # NoFloor /\ down_stop = NoFloor ->
                [branch |-> "IdleUp", direction |-> "Up", next_floor |-> cf + 1]
          [] up_stop = NoFloor /\ down_stop # NoFloor ->
                [branch |-> "IdleDown", direction |-> "Down", next_floor |-> cf - 1]
          [] OTHER ->
                [branch |-> "Unreachable", direction |-> "Idle", next_floor |-> cf]

\* The whole decision block (lines 120-182) on ElevatorState st
Decision(st) ==
    IF st.stops = {}
    THEN [branch |-> "Empty", direction |-> "Idle", next_floor |-> st.current_floor]
    ELSE CASE st.direction = "Up" -> UpBranch(st.current_floor, st.stops)
           [] st.direction = "Down" -> DownBranch(st.current_floor, st.stops)
           [] st.direction = "Idle" -> IdleBranch(st.current_floor, st.stops)

NoTick == [next_floor |-> NoFloor, should_stop |-> FALSE]
NoState == [current_floor |-> NoFloor, direction |-> "Idle", stops |-> {}]
NoSweep == [from |-> NoFloor, top |-> NoFloor, ticks |-> 0, only |-> FALSE]
NoHist == [before |-> NoState, sweep |-> NoSweep, serviced |-> NoFloor,
           sent |-> <<>>, done |-> <<>>]
NoPrev == [floor |-> NoFloor, direction |-> "Idle", chosen |-> None]
NoAudit == [scores |-> <<>>, sent |-> <<>>, dead |-> {}, stable |-> TRUE, prev |-> NoPrev]
NoScore == 0 - 1
NoProbe == [st |-> NoState, direction |-> "Idle", f1 |-> NoFloor, f2 |-> NoFloor,
            s1 |-> NoScore, s2 |-> NoScore, done |-> TRUE]
NoCall == [pc |-> "idle", floor |-> NoFloor, direction |-> "Idle", i |-> 1,
           best_score |-> I32Max, best_elevator |-> None]

\* A thread that panicked while holding the guard poisons the Mutex; only the
\* unreachable!() of line 173 panics under a guard.
Poisoned(e) == pc[e] = "panicked"
\* The Receiver is a local of the worker thread: it is dropped when it unwinds.
ReceiverDropped(e) == pc[e] = "panicked"
\* request_elevator runs on the main thread: its panic ends the process.
Running == call.pc # "panicked"

\* main, lines 203-217, for a fleet of n elevators
Init ==
    /\ fleet \in 0..MaxFleet
    /\ state = [e \in 1..fleet |-> NewState]
    /\ lock = [e \in 1..fleet |-> "free"]
    /\ chan = [e \in 1..fleet |-> <<>>]
    /\ senders = TRUE
    /\ pc = [e \in 1..fleet |-> "recv"]
    /\ cmd = [e \in 1..fleet |-> NoCmd]
    /\ tick = [e \in 1..fleet |-> NoTick]
    /\ call = NoCall
    /\ calls = 0
    /\ hist = [e \in 1..fleet |-> NoHist]
    /\ audit = NoAudit
    /\ probe = NoProbe
    /\ statuses = 0

\* ------------------------------------------------------- elevator_loop

\* Mutant of RecvOk: the receiver hands out the newest command, not the oldest
RecvOkNewest(e) ==
    /\ Running /\ pc[e] = "recv" /\ chan[e] # <<>>
    /\ cmd' = [cmd EXCEPT ![e] = chan[e][Len(chan[e])]]
    /\ chan' = [chan EXCEPT ![e] = SubSeq(@, 1, Len(@) - 1)]
    /\ pc' = [pc EXCEPT ![e] = "cmd"]
    /\ UNCHANGED <<fleet, state, lock, senders, tick, call, calls,
                   hist, audit, probe, statuses>>

\* line 103: receiver.try_recv() returns Ok(cmd)
RecvOk(e) ==
    /\ Running /\ pc[e] = "recv" /\ chan[e] # <<>>
    /\ cmd' = [cmd EXCEPT ![e] = Head(chan[e])]
    /\ chan' = [chan EXCEPT ![e] = Tail(@)]
    /\ pc' = [pc EXCEPT ![e] = "cmd"]
    /\ UNCHANGED <<fleet, state, lock, senders, tick, call, calls,
                   hist, audit, probe, statuses>>

\* line 103: try_recv() returns Err (Empty or Disconnected): the while let ends
RecvErr(e) ==
    /\ Running /\ pc[e] = "recv" /\ chan[e] = <<>>
    /\ pc' = [pc EXCEPT ![e] = "decide"]
    /\ UNCHANGED <<fleet, state, lock, chan, senders, cmd, tick, call, calls, hist, audit, probe, statuses>>

\* lines 106, 111, 121, 185: state.lock().unwrap() in the worker
WorkerLock(e, from, to) ==
    /\ Running /\ pc[e] = from /\ lock[e] = "free"
    /\ lock' = [lock EXCEPT ![e] = "worker"]
    /\ pc' = [pc EXCEPT ![e] = to]
    /\ UNCHANGED <<fleet, state, chan, senders, cmd, tick, call, calls,
                   hist, audit, probe, statuses>>

CmdLock(e) == WorkerLock(e, "cmd", "cmd_locked")
DecideLock(e) == WorkerLock(e, "decide", "decide_locked")
ApplyLock(e) == WorkerLock(e, "apply", "apply_locked")

\* History: a call's view of the fleet is stable until some ElevatorState changes
Observe(e, new) == [audit EXCEPT !.stable = @ /\ new = state[e]]

\* lines 104-117: the match on cmd, under the guard, and the guard's drop
CmdApply(e) ==
    LET new == [state[e] EXCEPT !.stops =
                   IF cmd[e].kind = "AddStop" THEN @ \cup {cmd[e].floor} ELSE @] IN
    /\ Running /\ pc[e] = "cmd_locked"
    /\ state' = [state EXCEPT ![e] = new]
    /\ lock' = [lock EXCEPT ![e] = "free"]
    /\ cmd' = [cmd EXCEPT ![e] = NoCmd]
    /\ pc' = [pc EXCEPT ![e] = "recv"]
    /\ hist' = [hist EXCEPT
                   ![e].sweep = IF cmd[e].kind = "AddStop" THEN NoSweep ELSE @,
                   ![e].done = Append(@, cmd[e])]
    /\ audit' = Observe(e, new)
    /\ UNCHANGED <<fleet, chan, senders, tick, call, calls, probe, statuses>>

\* History: a sweep starts at a decision taken with direction Up and every stop
\* strictly below current_floor, and ends at the decision after its largest
\* stop was reached
SweepAt(e) ==
    LET st == state[e] IN
    IF st.direction = "Up" /\ st.stops # {} /\ \A s \in st.stops : s < st.current_floor
    THEN [from |-> st.current_floor, top |-> SetMax(st.stops), ticks |-> 0,
          only |-> Cardinality(st.stops) = 1]
    ELSE IF hist[e].sweep # NoSweep /\ st.current_floor > hist[e].sweep.top
    THEN hist[e].sweep
    ELSE NoSweep

\* lines 120-182: the decision block under the guard, and the guard's drop
Decide(e) ==
    LET d == Decision(state[e])
        new == [state[e] EXCEPT !.direction = d.direction]
    IN
    /\ Running /\ pc[e] = "decide_locked"
    /\ lock' = [lock EXCEPT ![e] = "free"]
    /\ hist' = [hist EXCEPT ![e].before = state[e], ![e].sweep = SweepAt(e)]
    /\ IF d.branch = "Unreachable"
       THEN \* line 173: the thread unwinds, dropping guard and receiver
            /\ pc' = [pc EXCEPT ![e] = "panicked"]
            /\ chan' = [chan EXCEPT ![e] = <<>>]
            /\ UNCHANGED <<state, tick, audit>>
       ELSE /\ state' = [state EXCEPT ![e] = new]
            /\ tick' = [tick EXCEPT ![e] =
                          [next_floor |-> d.next_floor,
                           should_stop |-> d.next_floor \in state[e].stops]]
            /\ pc' = [pc EXCEPT ![e] = "apply"]
            /\ audit' = Observe(e, new)
            /\ UNCHANGED chan
    /\ UNCHANGED <<fleet, senders, cmd, call, calls, probe, statuses>>

\* Mutant of Apply: the guard lives to the end of the loop body, across the sleep
ApplyHolding(e) ==
    LET new == [state[e] EXCEPT
                   !.current_floor = tick[e].next_floor,
                   !.stops = IF tick[e].should_stop
                             THEN @ \ {tick[e].next_floor} ELSE @]
    IN
    /\ Running /\ pc[e] = "apply_locked"
    /\ state' = [state EXCEPT ![e] = new]
    /\ tick' = [tick EXCEPT ![e] = NoTick]
    /\ pc' = [pc EXCEPT ![e] = "sleep"]
    /\ hist' = [hist EXCEPT
                   ![e].sweep = IF @ = NoSweep THEN @ ELSE [@ EXCEPT !.ticks = @ + 1],
                   ![e].serviced = IF tick[e].should_stop THEN tick[e].next_floor ELSE @]
    /\ audit' = Observe(e, new)
    /\ UNCHANGED <<fleet, lock, chan, senders, cmd, call, calls, probe, statuses>>

\* Mutant of Apply: the floor arrived at is never taken out of stops
ApplyKeep(e) ==
    LET new == [state[e] EXCEPT !.current_floor = tick[e].next_floor]
    IN
    /\ Running /\ pc[e] = "apply_locked"
    /\ state' = [state EXCEPT ![e] = new]
    /\ lock' = [lock EXCEPT ![e] = "free"]
    /\ tick' = [tick EXCEPT ![e] = NoTick]
    /\ pc' = [pc EXCEPT ![e] = "sleep"]
    /\ hist' = [hist EXCEPT
                   ![e].sweep = IF @ = NoSweep THEN @ ELSE [@ EXCEPT !.ticks = @ + 1],
                   ![e].serviced = IF tick[e].should_stop THEN tick[e].next_floor ELSE @]
    /\ audit' = Observe(e, new)
    /\ UNCHANGED <<fleet, chan, senders, cmd, call, calls, probe, statuses>>

\* lines 184-191, 194-195: the move, the removal of a serviced stop, drop(state)
Apply(e) ==
    LET new == [state[e] EXCEPT
                   !.current_floor = tick[e].next_floor,
                   !.stops = IF tick[e].should_stop
                             THEN @ \ {tick[e].next_floor} ELSE @]
    IN
    /\ Running /\ pc[e] = "apply_locked"
    /\ state' = [state EXCEPT ![e] = new]
    /\ lock' = [lock EXCEPT ![e] = "free"]
    /\ tick' = [tick EXCEPT ![e] = NoTick]
    /\ pc' = [pc EXCEPT ![e] = "sleep"]
    /\ hist' = [hist EXCEPT
                   ![e].sweep = IF @ = NoSweep THEN @ ELSE [@ EXCEPT !.ticks = @ + 1],
                   ![e].serviced = IF tick[e].should_stop THEN tick[e].next_floor ELSE @]
    /\ audit' = Observe(e, new)
    /\ UNCHANGED <<fleet, chan, senders, cmd, call, calls, probe, statuses>>

\* lines 192, 196: thread::sleep returns and the loop starts over
Wake(e) ==
    /\ Running /\ pc[e] = "sleep"
    /\ pc' = [pc EXCEPT ![e] = "recv"]
    /\ hist' = [hist EXCEPT ![e].before = NoState]
    /\ UNCHANGED <<fleet, state, lock, chan, senders, cmd, tick, call, calls, audit, probe, statuses>>

elevator_loop(e) ==
    \/ RecvOk(e) \/ RecvErr(e)
    \/ CmdLock(e) \/ CmdApply(e)
    \/ DecideLock(e) \/ Decide(e)
    \/ ApplyLock(e) \/ Apply(e)
    \/ Wake(e)


\* ---------------------------------------------------- request_elevator

\* lines 76-78: a caller enters request_elevator(floor, direction)
Request(floor, direction) ==
    /\ call.pc \in {"idle", "returned"} /\ senders /\ calls < MaxRequests
    /\ call' = [NoCall EXCEPT !.pc = "scan", !.floor = floor, !.direction = direction]
    /\ calls' = calls + 1
    /\ audit' = [NoAudit EXCEPT
                    !.dead = {e \in Elevators : pc[e] = "panicked"},
                    !.prev = IF call.pc = "returned" /\ audit.stable
                             THEN [floor |-> call.floor, direction |-> call.direction,
                                   chosen |-> call.best_elevator]
                             ELSE NoPrev]
    /\ UNCHANGED <<fleet, state, lock, chan, senders, pc, cmd, tick,
                   hist, probe, statuses>>

\* line 81: elevator.state.lock().unwrap() for the next handle of the loop
ScanLock ==
    /\ call.pc = "scan" /\ call.i <= fleet
    /\ IF Poisoned(call.i)
       THEN call' = [call EXCEPT !.pc = "panicked"] /\ UNCHANGED lock
       ELSE /\ lock[call.i] = "free"
            /\ lock' = [lock EXCEPT ![call.i] = "controller"]
            /\ call' = [call EXCEPT !.pc = "scan_locked"]
    /\ UNCHANGED <<fleet, state, chan, senders, pc, cmd, tick, calls,
                   hist, audit, probe, statuses>>

\* Mutant of Better: ties go to the elevator with the shorter queue
BetterShortestQueue(score, best_score) ==
    \/ score < best_score
    \/ /\ score = best_score /\ call.best_elevator # None
       /\ Len(chan[call.i]) < Len(chan[call.best_elevator])

\* line 84: the comparison that replaces the best elevator so far
Better(score, best_score) == score < best_score

\* Mutant of ScanScore: the guard of each scanned handle is kept to the end of the call
ScanScoreKeep ==
    LET score == calculate_score(state[call.i], call.floor, call.direction) IN
    /\ call.pc = "scan_locked"
    /\ call' = [call EXCEPT
                  !.pc = "scan",
                  !.i = @ + 1,
                  !.best_score = IF Better(score, @) THEN score ELSE @,
                  !.best_elevator = IF Better(score, call.best_score) THEN call.i ELSE @]
    /\ audit' = [audit EXCEPT !.scores = Append(@, score)]
    /\ UNCHANGED <<fleet, state, lock, chan, senders, pc, cmd, tick, calls,
                   hist, probe, statuses>>

\* lines 82-88: score under the guard, keep the minimum, drop the guard
ScanScore ==
    LET score == calculate_score(state[call.i], call.floor, call.direction) IN
    /\ call.pc = "scan_locked"
    /\ call' = [call EXCEPT
                  !.pc = "scan",
                  !.i = @ + 1,
                  !.best_score = IF Better(score, @) THEN score ELSE @,
                  !.best_elevator = IF Better(score, call.best_score) THEN call.i ELSE @]
    /\ lock' = [lock EXCEPT ![call.i] = "free"]
    /\ audit' = [audit EXCEPT !.scores = Append(@, score)]
    /\ UNCHANGED <<fleet, state, chan, senders, pc, cmd, tick, calls,
                   hist, probe, statuses>>

\* Mutant of Send: best_elevator.unwrap() instead of if let Some
SendUnwrap ==
    /\ call.pc = "scan" /\ call.i > fleet
    /\ IF call.best_elevator = None \/ ReceiverDropped(call.best_elevator)
       THEN call' = [call EXCEPT !.pc = "panicked"] /\ UNCHANGED <<chan, audit, hist>>
       ELSE /\ chan' = [chan EXCEPT ![call.best_elevator] = Append(@, AddStop(call.floor))]
            /\ audit' = [audit EXCEPT !.sent =
                            Append(@, [to |-> call.best_elevator, cmd |-> AddStop(call.floor)])]
            /\ hist' = [hist EXCEPT ![call.best_elevator].sent =
                            Append(@, AddStop(call.floor))]
            /\ call' = [call EXCEPT !.pc = "print"]
    /\ UNCHANGED <<fleet, state, lock, senders, pc, cmd, tick, calls, probe, statuses>>

\* lines 90-91: after the loop, send AddStop(floor) to the best elevator if any
Send ==
    /\ call.pc = "scan" /\ call.i > fleet
    /\ IF call.best_elevator = None
       THEN call' = [call EXCEPT !.pc = "returned"] /\ UNCHANGED <<chan, audit, hist>>
       ELSE IF ReceiverDropped(call.best_elevator)
       THEN call' = [call EXCEPT !.pc = "panicked"] /\ UNCHANGED <<chan, audit, hist>>
       ELSE /\ chan' = [chan EXCEPT ![call.best_elevator] = Append(@, AddStop(call.floor))]
            /\ audit' = [audit EXCEPT !.sent =
                            Append(@, [to |-> call.best_elevator, cmd |-> AddStop(call.floor)])]
            /\ hist' = [hist EXCEPT ![call.best_elevator].sent =
                            Append(@, AddStop(call.floor))]
            /\ call' = [call EXCEPT !.pc = "print"]
    /\ UNCHANGED <<fleet, state, lock, senders, pc, cmd, tick, calls, probe, statuses>>

\* line 95: elevator.state.lock().unwrap().id inside println!
PrintLock ==
    /\ call.pc = "print"
    /\ IF Poisoned(call.best_elevator)
       THEN call' = [call EXCEPT !.pc = "panicked"] /\ UNCHANGED lock
       ELSE /\ lock[call.best_elevator] = "free"
            /\ lock' = [lock EXCEPT ![call.best_elevator] = "controller"]
            /\ call' = [call EXCEPT !.pc = "print_locked"]
    /\ UNCHANGED <<fleet, state, chan, senders, pc, cmd, tick, calls,
                   hist, audit, probe, statuses>>

\* lines 92-98: the temporary guard is dropped and the call returns
PrintUnlock ==
    /\ call.pc = "print_locked"
    /\ lock' = [lock EXCEPT ![call.best_elevator] = "free"]
    /\ call' = [call EXCEPT !.pc = "returned"]
    /\ UNCHANGED <<fleet, state, chan, senders, pc, cmd, tick, calls,
                   hist, audit, probe, statuses>>

request_elevator ==
    \/ ScanLock \/ ScanScore \/ Send \/ PrintLock \/ PrintUnlock

\* The Controller is dropped between calls, and with it every Sender
DropController ==
    /\ call.pc \in {"idle", "returned"} /\ senders
    /\ senders' = FALSE
    /\ UNCHANGED <<fleet, state, lock, chan, pc, cmd, tick, call, calls,
                   hist, audit, probe, statuses>>

Next ==
    \/ \E e \in Elevators : elevator_loop(e)
    \/ \E f \in Floors, d \in {"Up", "Down"} : Request(f, d)
    \/ request_elevator
    \/ DropController

Spec == Init /\ [][Next]_vars

\* lines 16, 110: the owner of the Controller sends Command::Status on a live
\* channel between two request_elevator calls
SendStatus(e) ==
    /\ call.pc \in {"idle", "returned"} /\ senders /\ ~ReceiverDropped(e)
    /\ statuses < MaxStatus
    /\ chan' = [chan EXCEPT ![e] = Append(@, Status)]
    /\ hist' = [hist EXCEPT ![e].sent = Append(@, Status)]
    /\ statuses' = statuses + 1
    /\ UNCHANGED <<fleet, state, lock, senders, pc, cmd, tick, call, calls,
                   audit, probe>>

StatusNext ==
    \/ Next
    \/ \E e \in Elevators : SendStatus(e)

\* The program with both variants of Command in use
StatusSpec == Init /\ [][StatusNext]_vars

\* Every thread that can run does: each elevator_loop is its own OS thread and
\* a request_elevator call in progress runs on the caller's thread
FairSpec ==
    /\ Spec
    /\ \A e \in 1..MaxFleet : WF_vars(e \in Elevators /\ elevator_loop(e))
    /\ WF_vars(request_elevator)

TypeOK ==
    /\ fleet \in 0..MaxFleet
    /\ \A e \in Elevators :
          /\ state[e].current_floor \in Floors
          /\ state[e].direction \in Direction
          /\ state[e].stops \subseteq Floors
          /\ lock[e] \in {"free", "worker", "controller"}
          /\ Len(chan[e]) <= MaxRequests + MaxStatus
          /\ pc[e] \in {"recv", "cmd", "cmd_locked", "decide", "decide_locked",
                        "apply", "apply_locked", "sleep", "panicked"}
    /\ call.pc \in {"idle", "scan", "scan_locked", "print", "print_locked",
                    "returned", "panicked"}

\* ------------------------------------------- request_elevator: properties

\* The handle whose score is the minimum of the scores read, the first on ties
FirstMin(scores) ==
    CHOOSE i \in 1..Len(scores) :
        /\ \A j \in 1..Len(scores) : scores[i] <= scores[j]
        /\ \A j \in 1..(i - 1) : scores[j] > scores[i]

CallEnded == call.pc \in {"returned", "panicked"}
Selected ==
    \/ call.pc = "scan" /\ call.i > fleet
    \/ call.pc \in {"print", "print_locked", "returned"}

\* C1: on a non-empty fleet every call that has ended (by returning or by
\* panicking) has read the score of every elevator and has enqueued exactly one
\* command, AddStop(floor), on the channel of the first elevator with the
\* minimum score.
C1_EveryCallEnqueuesOnFirstMin ==
    (fleet > 0 /\ CallEnded) =>
        /\ Len(audit.scores) = fleet
        /\ audit.sent = <<[to |-> FirstMin(audit.scores), cmd |-> AddStop(call.floor)]>>

\* C2: a call entered after some worker has terminated does not panic.
C2_NoCrashAfterWorkerDeath ==
    audit.dead # {} => call.pc # "panicked"

\* C4: with zero elevators a call scores nothing, selects nothing, sends
\* nothing and never panics; there is no channel and no ElevatorState to change.
C4_EmptyFleetNoOp ==
    fleet = 0 =>
        /\ call.pc \in {"idle", "scan", "returned"}
        /\ call.best_elevator = None
        /\ audit.scores = <<>> /\ audit.sent = <<>>
        /\ DOMAIN chan = {} /\ DOMAIN state = {}

C4_Witness == fleet = 0 /\ call.pc = "returned" /\ calls = MaxRequests

\* C7: a call that finds every ElevatorState as the previous call found it
\* (no state changed since the previous call was entered) and has the same
\* arguments selects the same elevator.
C7_SameChoice ==
    (/\ Selected
     /\ audit.stable
     /\ audit.prev # NoPrev
     /\ audit.prev.floor = call.floor
     /\ audit.prev.direction = call.direction)
    => call.best_elevator = audit.prev.chosen

C7_Witness ==
    /\ fleet = 2 /\ call.pc = "returned" /\ audit.stable
    /\ audit.prev = [floor |-> call.floor, direction |-> call.direction, chosen |-> 1]
    /\ call.best_elevator = 1
    /\ audit.scores[1] = audit.scores[2]

\* ------------------------------------------------------ calculate_score

ProbeFloors == (0 - ProbeSpan)..ProbeSpan

\* One probe: an ElevatorState, a requested direction and two floors
ScoreInit ==
    /\ fleet = 0
    /\ state = <<>> /\ lock = <<>> /\ chan = <<>> /\ pc = <<>>
    /\ cmd = <<>> /\ tick = <<>> /\ hist = <<>>
    /\ senders = TRUE /\ call = NoCall /\ calls = 0 /\ audit = NoAudit
    /\ statuses = 0
    /\ probe \in [st : [current_floor : ProbeFloors, direction : Direction, stops : {{}}],
                  direction : {"Up", "Down"},
                  f1 : ProbeFloors, f2 : ProbeFloors,
                  s1 : {NoScore}, s2 : {NoScore}, done : {FALSE}]

\* state.calculate_score(floor, direction) of line 82, on the probe
ScoreStep ==
    /\ ~probe.done
    /\ probe' = [probe EXCEPT
                    !.s1 = calculate_score(probe.st, probe.f1, probe.direction),
                    !.s2 = calculate_score(probe.st, probe.f2, probe.direction),
                    !.done = TRUE]
    /\ UNCHANGED <<fleet, state, lock, chan, senders, pc, cmd, tick, call, calls,
                   hist, audit, statuses>>

ScoreSpec == ScoreInit /\ [][ScoreStep]_vars

Probed == probe.done /\ probe.direction # "Idle"

\* C5: the score is the distance when the elevator is Idle or travels in the
\* requested direction with the floor at or ahead of it, the distance + 1000
\* when it travels in the requested direction and the floor is behind it, and
\* the distance + 500 when the requested direction is the opposite of its
\* travel; ahead means above for Up and below for Down.
C5_ScoreCases ==
    Probed =>
        LET c == probe.st.current_floor
            f == probe.f1
            travel == probe.st.direction
            distance == IF c >= f THEN c - f ELSE f - c
            ahead == IF travel = "Up" THEN f >= c ELSE f <= c
        IN  probe.s1 = CASE travel = "Idle" -> distance
                         [] travel = probe.direction /\ ahead -> distance
                         [] travel = probe.direction /\ ~ahead -> distance + 1000
                         [] OTHER -> distance + 500

C5_Witness ==
    /\ Probed /\ probe.st.direction = "Down" /\ probe.direction = "Down"
    /\ probe.f1 > probe.st.current_floor
    /\ probe.s1 = (probe.f1 - probe.st.current_floor) + 1000

\* C6: for an elevator travelling Up and two floors f1 < f2, both at or above
\* current_floor and requested Up, score(f1) <= score(f2).
C6_Monotone ==
    (/\ Probed /\ probe.st.direction = "Up" /\ probe.direction = "Up"
     /\ probe.st.current_floor <= probe.f1 /\ probe.f1 < probe.f2)
    => probe.s1 <= probe.s2

C6_Witness ==
    /\ Probed /\ probe.st.direction = "Up" /\ probe.direction = "Up"
    /\ probe.st.current_floor < probe.f1 /\ probe.f1 < probe.f2
    /\ probe.s1 < probe.s2 /\ probe.s1 > 0

\* ---------------------------------------------- elevator_loop: properties

\* The worker thread has ended: it unwound from a panic, or the process did
Terminated(e) == pc[e] = "panicked" \/ ~Running

\* C3: once the Controller and its Senders are dropped and the channel of a
\* worker is empty, that worker eventually terminates.
C3_WorkerTerminates ==
    \A e \in 1..MaxFleet :
        (e \in Elevators /\ ~senders /\ chan[e] = <<>>)
            ~> (e \in Elevators /\ Terminated(e))

\* C8: in a sweep (begun by a decision taken with direction Up and every stop
\* strictly below current_floor c, and with no AddStop handled since) the
\* direction is Down from the first tick on, each tick moves down exactly one
\* floor (after k ticks the elevator is at c - k), the largest stop s is in
\* stops exactly until the tick that arrives at s, and when s was the only stop,
\* stops is empty from that tick on, which is tick c - s.
C8_Sweep ==
    \A e \in Elevators :
        LET sw == hist[e].sweep
            st == state[e]
        IN  sw # NoSweep =>
                /\ st.direction = "Down"
                /\ st.current_floor = sw.from - sw.ticks
                /\ sw.ticks <= sw.from - sw.top
                /\ (sw.top \in st.stops) <=> (st.current_floor > sw.top)
                /\ pc[e] \in {"apply", "apply_locked"}
                       => tick[e].next_floor = st.current_floor - 1
                /\ sw.only => st.stops = IF st.current_floor > sw.top
                                         THEN {sw.top} ELSE {}

C8_Witness ==
    \E e \in Elevators :
        /\ hist[e].sweep # NoSweep /\ hist[e].sweep.only
        /\ hist[e].sweep.ticks = 3
        /\ state[e].current_floor = hist[e].sweep.from - 3
        /\ state[e].current_floor = hist[e].sweep.top
        /\ state[e].stops = {}

\* C9: a tick whose decision found direction Idle, a stop above and a stop
\* below current_floor c sets direction Up and moves to c + 1 when the nearest
\* stop above is at most as far as the nearest stop below, and otherwise sets
\* direction Down and moves to c - 1.
C9_IdleDecision ==
    \A e \in Elevators :
        LET b == hist[e].before
            c == b.current_floor
            above == {s \in b.stops : s > c}
            below == {s \in b.stops : s < c}
        IN  (/\ pc[e] \in {"apply", "apply_locked", "sleep"}
             /\ b.direction = "Idle" /\ above # {} /\ below # {})
            => LET up == SetMin(above) - c <= c - SetMax(below)
                   to == IF up THEN c + 1 ELSE c - 1
               IN  /\ state[e].direction = IF up THEN "Up" ELSE "Down"
                   /\ IF pc[e] = "sleep"
                      THEN state[e].current_floor = to
                      ELSE state[e].current_floor = c /\ tick[e].next_floor = to

C9_Witness ==
    \E e \in Elevators :
        /\ pc[e] = "sleep"
        /\ hist[e].before = [current_floor |-> 0, direction |-> "Idle",
                             stops |-> {0 - 1, 1}]
        /\ state[e].current_floor = 1 /\ state[e].direction = "Up"

\* C10: a floor that was serviced and is a member of stops again is never left
\* behind by a worker that has stopped running.
C10_ReAddedStopServiced ==
    \A e \in Elevators :
        ~(pc[e] = "panicked" /\ hist[e].serviced \in state[e].stops)

\* ------------------------------------------------------ channel properties

IsPrefix(s, t) == Len(s) <= Len(t) /\ SubSeq(t, 1, Len(s)) = s

\* The command elevator_loop e has received and not yet handled
InHand(e) == IF pc[e] \in {"cmd", "cmd_locked"} THEN <<cmd[e]>> ELSE <<>>

\* C11: the commands a worker has processed are, in order, a prefix of the
\* commands sent on its channel; while the worker runs, the commands sent are
\* exactly the processed ones, then the one in hand, then the ones still queued
\* (none lost, none duplicated, none reordered).
C11_Fifo ==
    \A e \in Elevators :
        /\ IsPrefix(hist[e].done, hist[e].sent)
        /\ pc[e] # "panicked"
              => hist[e].sent = hist[e].done \o InHand(e) \o chan[e]

C11_Witness ==
    \E e \in Elevators :
        /\ Len(hist[e].done) = 2
        /\ hist[e].done[1] # hist[e].done[2]
        /\ hist[e].done = hist[e].sent

\* --------------------------------------------------------- lock properties

\* C12: a worker that is sleeping does not hold the lock of its state.
C12_NoLockWhileSleeping ==
    \A e \in Elevators : pc[e] = "sleep" => lock[e] # "worker"

\* A request_elevator call reads the state of a worker that sleeps after a move
C12_Witness ==
    \E e \in Elevators :
        /\ pc[e] = "sleep" /\ state[e].current_floor # 0
        /\ lock[e] = "controller" /\ call.pc = "scan_locked" /\ call.i = e

\* The locks held by the thread that runs request_elevator
ControllerHolds == {e \in Elevators : lock[e] = "controller"}

\* C13: the calling thread holds at most one state lock, a worker holds none
\* but its own, and every thread that holds a lock stands at a step that needs
\* no further lock before it releases the one it holds, so that no thread waits
\* for a lock whose holder is itself waiting.
C13_OneLockNoDeadlock ==
    /\ Cardinality(ControllerHolds) <= 1
    /\ \A e \in Elevators :
          /\ lock[e] = "controller"
                => \/ call.pc = "scan_locked" /\ call.i = e
                   \/ call.pc = "print_locked" /\ call.best_elevator = e
          /\ lock[e] = "worker"
                => pc[e] \in {"cmd_locked", "decide_locked", "apply_locked"}
          /\ pc[e] \in {"cmd_locked", "decide_locked", "apply_locked"}
                => lock[e] = "worker"
    /\ call.pc \in {"scan_locked", "print_locked"} => ControllerHolds # {}

\* A worker waits for the lock the calling thread holds while another worker
\* holds its own
C13_Witness ==
    \E e, o \in Elevators :
        /\ e # o
        /\ pc[e] \in {"cmd", "decide", "apply"} /\ lock[e] = "controller"
        /\ lock[o] = "worker"

\* ------------------------------------------------- decision: properties

\* C14: no worker ever reaches the Idle arm with stops non-empty and neither a
\* stop above nor a stop below (line 173), so no worker ever panics.
C14_UnreachableNeverHit ==
    \A e \in Elevators : pc[e] # "panicked"

\* C15: whenever a worker is about to decide, or is deciding, current_floor is
\* not a member of stops.
C15_CurrentFloorNotAStop ==
    \A e \in Elevators :
        pc[e] \in {"decide", "decide_locked"}
            => state[e].current_floor \notin state[e].stops

\* The step is the apply phase of a tick of elevator_loop e
ApplyStep(e) == pc[e] = "apply_locked" /\ pc'[e] = "sleep"

\* C16: a floor leaves stops only in the apply phase of a tick that makes it
\* the current floor; a tick that moves onto a floor of stops removes it in the
\* same step; every other step (drain of AddStop or Status, request_elevator,
\* an idle tick) removes nothing from stops.
C16_RemovedOnlyWhenServiced ==
    [][\A e \in Elevators :
          /\ \A f \in state[e].stops \ state'[e].stops :
                ApplyStep(e) /\ state'[e].current_floor = f
          /\ ApplyStep(e) /\ state'[e].current_floor # state[e].current_floor
                => state'[e].current_floor \notin state'[e].stops
      ]_vars

\* A Status was processed, a stop has just been serviced and another is pending
C16_Witness ==
    \E e \in Elevators :
        /\ Status \in {hist[e].done[i] : i \in 1..Len(hist[e].done)}
        /\ pc[e] = "sleep" /\ hist[e].serviced = state[e].current_floor
        /\ state[e].stops # {}

\* The floor the tick in progress of elevator_loop e moves to
TickTarget(e) ==
    IF pc[e] \in {"apply", "apply_locked"} THEN tick[e].next_floor
    ELSE state[e].current_floor

\* C17: a tick whose decision finds stops non-empty moves the elevator by
\* exactly one floor, up or down; a tick whose decision finds stops empty
\* leaves current_floor alone and sets direction to Idle.
C17_StepSize ==
    \A e \in Elevators :
        LET b == hist[e].before IN
        b # NoState =>
            IF b.stops # {}
            THEN /\ pc[e] # "panicked"
                 /\ Abs(TickTarget(e) - b.current_floor) = 1
            ELSE /\ TickTarget(e) = b.current_floor
                 /\ state[e].direction = "Idle"

\* C18: a tick that starts with direction Up ends with direction Down only if
\* its decision finds no stop strictly above current_floor; if it finds one,
\* the tick moves to current_floor + 1 and direction stays Up, whatever lies
\* below. The same for Down, with the stops strictly below and current_floor - 1.
C18_DirectionPersists ==
    \A e \in Elevators :
        LET b == hist[e].before
            c == b.current_floor
            above == {s \in b.stops : s > c}
            below == {s \in b.stops : s < c}
        IN  /\ b.direction = "Up" =>
                /\ state[e].direction = "Down" => above = {}
                /\ above # {} => /\ state[e].direction = "Up"
                                 /\ TickTarget(e) = c + 1
            /\ b.direction = "Down" =>
                /\ state[e].direction = "Up" => below = {}
                /\ below # {} => /\ state[e].direction = "Down"
                                 /\ TickTarget(e) = c - 1

\* Going up with a stop below that was added on the way and a stop above
C18_Witness ==
    \E e \in Elevators :
        LET b == hist[e].before IN
        /\ pc[e] = "sleep" /\ b.direction = "Up"
        /\ \E s \in b.stops : s < b.current_floor
        /\ \E s \in b.stops : s > b.current_floor
        /\ state[e].current_floor = b.current_floor + 1
        /\ state[e].direction = "Up"

\* The floors sent to elevator e by AddStop so far, and its initial floor
AskedFloors(e) ==
    {NewState.current_floor} \cup
    {hist[e].sent[i].floor :
        i \in {j \in 1..Len(hist[e].sent) : hist[e].sent[j].kind = "AddStop"}}

\* C19: current_floor of every elevator lies between the least and the
\* greatest of its initial floor and the floors sent to it by AddStop.
C19_BoundedTravel ==
    \A e \in Elevators :
        /\ SetMin(AskedFloors(e)) <= state[e].current_floor
        /\ state[e].current_floor <= SetMax(AskedFloors(e))

\* A reversal triggered by a stop equal to the current floor has been made
C19_Witness ==
    \E e \in Elevators :
        LET b == hist[e].before IN
        /\ pc[e] = "sleep" /\ b.direction # "Idle"
        /\ b.stops = {b.current_floor}
        /\ state[e].current_floor # b.current_floor

\* AddStop(f) is queued for elevator e, in its hand, or f is one of its stops
Pending(e, f) ==
    \/ \E i \in 1..Len(chan[e]) : chan[e][i] = AddStop(f)
    \/ InHand(e) = <<AddStop(f)>>
    \/ f \in state[e].stops

\* C20: every AddStop(f) on a worker's channel is eventually drained and f is
\* eventually removed from stops by the worker, which then still runs.
C20_EventualService ==
    \A e \in 1..MaxFleet : \A f \in Floors :
        (e \in Elevators /\ Pending(e, f))
            ~> (e \in Elevators /\ ~Pending(e, f) /\ pc[e] # "panicked")
====
